---- MODULE Spec2Model ----
(***************************************************************************)
(* Cache-backed request path of the i18next HTTP backend:                  *)
(* TanStackI18nextBackend (request, requestWithCallback, createQueryFn)    *)
(* and I18nextErrorHandler (transformError, shouldRetry, getRetryDelay,    *)
(* processForCallback), together with the part of the query client that    *)
(* fetchQuery exercises (one query per key, in-flight sharing, retryer).   *)
(***************************************************************************)
EXTENDS Integers, Naturals, Sequences, FiniteSets, TLC

(***************************************************************************)
(* Bounds of the model.                                                    *)
(***************************************************************************)
MaxCalls == 2
MaxRetryOpt == 1
MaxAttemptIndex == 12

(***************************************************************************)
(* JavaScript values.  A number that is absent (undefined) is Undefined;   *)
(* a message is a sequence of words, the empty sequence standing for an    *)
(* empty or absent message (both are falsy).                               *)
(***************************************************************************)
Undefined == -1

Truthy(n) == n # Undefined /\ n # 0

NoMessage == << >>

(***************************************************************************)
(* String.prototype.toLowerCase and String.prototype.includes on words.    *)
(***************************************************************************)
LowerTable ==
  [w \in {"Failed", "Load", "Network", "HTTP", "JSON", "Timeout", "URL",
          "Invalid", "Unexpected", "The", "Cannot", "Gateway", "Not",
          "Modified", "Found", "Unknown", "NetworkError"} |->
     CASE w = "Failed" -> "failed"
       [] w = "Load" -> "load"
       [] w = "Network" -> "network"
       [] w = "HTTP" -> "http"
       [] w = "JSON" -> "json"
       [] w = "Timeout" -> "timeout"
       [] w = "URL" -> "url"
       [] w = "Invalid" -> "invalid"
       [] w = "Unexpected" -> "unexpected"
       [] w = "The" -> "the"
       [] w = "Cannot" -> "cannot"
       [] w = "Gateway" -> "gateway"
       [] w = "Not" -> "not"
       [] w = "Modified" -> "modified"
       [] w = "Found" -> "found"
       [] w = "Unknown" -> "unknown"
       [] w = "NetworkError" -> "networkerror"]

toLowerCase(w) == IF w \in DOMAIN LowerTable THEN LowerTable[w] ELSE w

\* proper substrings among the words of the model: <<word, part>>
SubstringTable ==
  { <<"loading", "load">>, <<"aborted", "abort">>,
    <<"/download/en", "load">>, <<"networkerror", "network">> }

WordIncludes(w, part) == w = part \/ <<w, part>> \in SubstringTable

MessageLower(m) == [i \in DOMAIN m |-> toLowerCase(m[i])]

MessageIncludes(m, part) == \E i \in DOMAIN m : WordIncludes(m[i], part)

(***************************************************************************)
(* I18nextError and raw errors: name, message, status, response.status,    *)
(* retry flag, url.  A raw error has no url ("") and no retry flag.        *)
(***************************************************************************)
MkError(name, message, status) ==
  [name |-> name, message |-> message, status |-> status,
   respStatus |-> Undefined, retry |-> FALSE, url |-> ""]

networkErrorTerms == <<"failed", "fetch", "network", "load", "timeout", "abort">>

isNetworkError(message) ==
  \E t \in DOMAIN networkErrorTerms :
     MessageIncludes(MessageLower(message), networkErrorTerms[t])

StatusMessage(url, status) ==
  <<"failed", "loading", url, "status", "code", ToString(status)>>

\* transformError with the message rule tried before the status rules
transformError_messageFirst(error, url) ==
  LET base == [name |-> "Error", message |-> NoMessage, status |-> Undefined,
               respStatus |-> Undefined, retry |-> FALSE, url |-> url]
      hasStatus == Truthy(error.respStatus) \/ Truthy(error.status)
      status == IF Truthy(error.respStatus) THEN error.respStatus ELSE error.status
      withStatus == IF hasStatus THEN [base EXCEPT !.status = status] ELSE base
  IN  IF error.message # NoMessage /\ isNetworkError(error.message)
      THEN [withStatus EXCEPT !.message = <<"failed", "loading", url>> \o error.message,
                              !.retry = TRUE]
      ELSE IF hasStatus /\ status >= 500 /\ status < 600
      THEN [withStatus EXCEPT !.message = StatusMessage(url, status), !.retry = TRUE]
      ELSE IF hasStatus /\ status >= 400 /\ status < 500
      THEN [withStatus EXCEPT !.message = StatusMessage(url, status), !.retry = FALSE]
      ELSE [withStatus EXCEPT !.message = IF error.message # NoMessage
                                          THEN error.message
                                          ELSE <<"Unknown", "error", "occurred">>,
                              !.retry = FALSE]

\* transformError with every status from 400 on treated as retryable
transformError_clientRetry(error, url) ==
  LET base == [name |-> "Error", message |-> NoMessage, status |-> Undefined,
               respStatus |-> Undefined, retry |-> FALSE, url |-> url]
      hasStatus == Truthy(error.respStatus) \/ Truthy(error.status)
      status == IF Truthy(error.respStatus) THEN error.respStatus ELSE error.status
      withStatus == IF hasStatus THEN [base EXCEPT !.status = status] ELSE base
  IN  IF hasStatus /\ status >= 400 /\ status < 600
      THEN [withStatus EXCEPT !.message = StatusMessage(url, status), !.retry = TRUE]
      ELSE IF error.message # NoMessage /\ isNetworkError(error.message)
      THEN [withStatus EXCEPT !.message = <<"failed", "loading", url>> \o error.message,
                              !.retry = TRUE]
      ELSE [withStatus EXCEPT !.message = IF error.message # NoMessage
                                          THEN error.message
                                          ELSE <<"Unknown", "error", "occurred">>,
                              !.retry = FALSE]

transformError(error, url) ==
  LET base == [name |-> "Error", message |-> NoMessage, status |-> Undefined,
               respStatus |-> Undefined, retry |-> FALSE, url |-> url]
      hasStatus == Truthy(error.respStatus) \/ Truthy(error.status)
      status == IF Truthy(error.respStatus) THEN error.respStatus ELSE error.status
      withStatus == IF hasStatus THEN [base EXCEPT !.status = status] ELSE base
  IN  IF hasStatus /\ status >= 500 /\ status < 600
      THEN [withStatus EXCEPT !.message = StatusMessage(url, status), !.retry = TRUE]
      ELSE IF hasStatus /\ status >= 400 /\ status < 500
      THEN [withStatus EXCEPT !.message = StatusMessage(url, status), !.retry = FALSE]
      ELSE IF error.message # NoMessage /\ isNetworkError(error.message)
      THEN [withStatus EXCEPT !.message = <<"failed", "loading", url>> \o error.message,
                              !.retry = TRUE]
      ELSE IF error.name = "SyntaxError" \/ MessageIncludes(error.message, "JSON")
      THEN [withStatus EXCEPT !.message = <<"failed", "parsing", url, "to", "json">>,
                              !.retry = FALSE]
      ELSE [withStatus EXCEPT !.message = IF error.message # NoMessage
                                          THEN error.message
                                          ELSE <<"Unknown", "error", "occurred">>,
                              !.retry = FALSE]

\* shouldRetry that retries network failures only
shouldRetry_networkOnly(error) == error.retry = TRUE /\ error.status = Undefined

shouldRetry(error) == error.retry = TRUE

\* 2^n
RECURSIVE Pow2(_)
Pow2(n) == IF n = 0 THEN 1 ELSE 2 * Pow2(n - 1)

Min(a, b) == IF a < b THEN a ELSE b

\* getRetryDelay without the ceiling
getRetryDelay_uncapped(attemptIndex) == 1000 * Pow2(attemptIndex)

getRetryDelay(attemptIndex) == Min(1000 * Pow2(attemptIndex), 30000)

(***************************************************************************)
(* processForCallback: the error value handed to the callback (null, or    *)
(* the message of the error) and the retry signal.                         *)
(***************************************************************************)
CbError(isNull, message) == [null |-> isNull, message |-> message]

\* the value null / undefined in the place of an error
NullError == MkError("null", NoMessage, Undefined)

\* processForCallback deciding on the status alone
processForCallback_ignoresFlag(error) ==
  IF error = NullError
  THEN [error |-> CbError(TRUE, NoMessage), retry |-> FALSE]
  ELSE IF Truthy(error.status) /\ error.status >= 500 /\ error.status < 600
  THEN [error |-> CbError(FALSE, error.message), retry |-> TRUE]
  ELSE [error |-> CbError(FALSE, error.message), retry |-> FALSE]

processForCallback(error) ==
  IF error = NullError
  THEN [error |-> CbError(TRUE, NoMessage), retry |-> FALSE]
  ELSE IF error.retry = TRUE
  THEN [error |-> CbError(FALSE, error.message), retry |-> TRUE]
  ELSE IF Truthy(error.status) /\ error.status >= 400 /\ error.status < 500
  THEN [error |-> CbError(FALSE, error.message), retry |-> FALSE]
  ELSE IF Truthy(error.status) /\ error.status >= 500 /\ error.status < 600
  THEN [error |-> CbError(FALSE, error.message), retry |-> TRUE]
  ELSE [error |-> CbError(FALSE, error.message), retry |-> FALSE]

(***************************************************************************)
(* Options.  tanstackQuery.retry is a tagged value: a number, or a value   *)
(* of another type (undefined, boolean).  An optional boolean field is     *)
(* "true", "false" or "undefined" (the field is absent).                   *)
(***************************************************************************)
RetryNumber(n) == [type |-> "number", val |-> n]
RetryUndefined == [type |-> "undefined", val |-> 0]

\* retry: false / retry: true (I18nextRequestOptions: retry?: number | boolean)
RetryBoolean(b) == [type |-> "boolean", val |-> IF b THEN 1 ELSE 0]

\* retry: (failureCount, error) => boolean, one of the functions below
RetryFunction(fn) == [type |-> "function", val |-> fn]

\* the retry function users configure (README, Custom Retry Logic): no
\* retry on a 4xx status, otherwise up to 3 retries
NoRetryOn4xx == 1
RetryFunctions == {NoRetryOn4xx}

\* what the configured function fn returns for (failureCount, error)
userRetry(fn, failureCount, error) ==
  IF Truthy(error.status) /\ error.status >= 400 /\ error.status < 500
  THEN FALSE
  ELSE failureCount < 3

DefaultTanstackQuery ==
  [enabled |-> "true", staleTime |-> 5 * 60 * 1000, cacheTime |-> 10 * 60 * 1000,
   retry |-> RetryNumber(3), refetchOnWindowFocus |-> "false",
   refetchOnReconnect |-> "true"]

\* a user options object either has no tanstackQuery section or has one
NoSection == [present |-> FALSE, enabled |-> "undefined", staleTime |-> Undefined,
              cacheTime |-> Undefined, retry |-> RetryUndefined,
              refetchOnWindowFocus |-> "undefined",
              refetchOnReconnect |-> "undefined"]

Section(enabled, staleTime, cacheTime, retry, refetchOnWindowFocus, refetchOnReconnect) ==
  [present |-> TRUE, enabled |-> enabled, staleTime |-> staleTime,
   cacheTime |-> cacheTime, retry |-> retry,
   refetchOnWindowFocus |-> refetchOnWindowFocus,
   refetchOnReconnect |-> refetchOnReconnect]

UserSection(staleTime, retry) ==
  Section("true", staleTime, Undefined, retry, "undefined", "undefined")

UserOptions ==
  {UserSection(5 * 60 * 1000, RetryUndefined)} \cup
  { UserSection(Undefined, RetryNumber(n)) : n \in 0..MaxRetryOpt }

\* constructor: { tanstackQuery: defaults, ...options } (a shallow merge)
constructor(userOptions) ==
  IF userOptions.present
  THEN [enabled |-> userOptions.enabled, staleTime |-> userOptions.staleTime,
        cacheTime |-> userOptions.cacheTime, retry |-> userOptions.retry,
        refetchOnWindowFocus |-> userOptions.refetchOnWindowFocus,
        refetchOnReconnect |-> userOptions.refetchOnReconnect]
  ELSE DefaultTanstackQuery

\* x ?? d on an optional boolean field
Nullish(x, d) == IF x = "undefined" THEN d ELSE x

\* the retry bound of the retry function of request()
retryBound(tanstackQuery) ==
  IF tanstackQuery.retry.type = "number" THEN tanstackQuery.retry.val ELSE 3

\* the query options request() hands to fetchQuery, for the merged
\* tanstackQuery section
queryOptions(tanstackQuery) ==
  [staleTime |-> tanstackQuery.staleTime,
   cacheTime |-> tanstackQuery.cacheTime,
   retryBound |-> retryBound(tanstackQuery),
   refetchOnWindowFocus |-> Nullish(tanstackQuery.refetchOnWindowFocus, "false"),
   refetchOnReconnect |-> Nullish(tanstackQuery.refetchOnReconnect, "true")]

(***************************************************************************)
(* The availability guards, on an options object: whether it carries a     *)
(* query client, and its tanstackQuery section.                            *)
(***************************************************************************)
OptionsObject(queryClient, tanstackQuery) ==
  [queryClient |-> queryClient, tanstackQuery |-> tanstackQuery]

\* options.tanstackQuery?.enabled
EnabledOf(o) ==
  IF o.tanstackQuery.present THEN o.tanstackQuery.enabled ELSE "undefined"

isQueryClientAvailable(o) == o.queryClient /\ EnabledOf(o) # "false"

\* isTanstackQueryEnabled that does not look for the query client
isTanstackQueryEnabled_noClient(o) == EnabledOf(o) = "true"

isTanstackQueryEnabled(o) == EnabledOf(o) = "true" /\ o.queryClient

(***************************************************************************)
(* Query keys.                                                             *)
(***************************************************************************)
NoPayload == "undefined"

\* the requests callers make: loads of two URLs, and a save (with payload)
Requests ==
  { <<"/locales/en", NoPayload>>, <<"/download/en", NoPayload>>,
    <<"/locales/add/en", "{k:v}">> }

PayloadTruthy(payload) == payload # NoPayload /\ payload # ""

queryKeys_all == <<"i18next">>
queryKeys_loads == queryKeys_all \o <<"load">>
\* a load key that leaves out the URL
queryKeys_load_noUrl(url, payload) == queryKeys_loads \o <<"", payload>>

queryKeys_load(url, payload) == queryKeys_loads \o <<url, payload>>
queryKeys_creates == queryKeys_all \o <<"create">>
\* a save key that leaves out the payload
queryKeys_create_noPayload(url, payload) == queryKeys_creates \o <<url>>

queryKeys_create(url, payload) == queryKeys_creates \o <<url, payload>>

\* the key factory of lib/tanstack/query-keys.ts
tanstack_queryKeys_all == <<"i18next">>
tanstack_queryKeys_load(url) == <<"i18next", "load", url>>
tanstack_queryKeys_create(url, payload) == <<"i18next", "save", url, payload>>

QueryKey(url, payload) ==
  IF PayloadTruthy(payload)
  THEN queryKeys_create(url, payload)
  ELSE queryKeys_load(url, payload)

Keys == { QueryKey(r[1], r[2]) : r \in Requests }

(***************************************************************************)
(* Transport outcomes: fetch() either resolves with a response (status,    *)
(* statusText, body text) or rejects with an error.                        *)
(***************************************************************************)
HttpResponse(status, statusText, body) ==
  [kind |-> "response", status |-> status, statusText |-> statusText,
   body |-> body, error |-> NullError]

FetchRejects(error) ==
  [kind |-> "reject", status |-> Undefined, statusText |-> "", body |-> "",
   error |-> error]

Outcomes ==
  { HttpResponse(200, "OK", "{key:passing}"),
    HttpResponse(204, "", ""),
    HttpResponse(200, "OK", "<html>"),
    HttpResponse(500, "Error", ""),
    HttpResponse(404, "Found", ""),
    HttpResponse(304, "Modified", ""),
    FetchRejects(MkError("TypeError", <<"Failed", "to", "fetch">>, Undefined)) }

ResponseOk(status) == status >= 200 /\ status <= 299

\* JSON.parse on the body texts of the model
JSONparse(text) ==
  IF text = "{key:passing}"
  THEN [throws |-> FALSE, value |-> "key=passing"]
  ELSE [throws |-> TRUE, value |-> "undefined"]

I18nextResponse(status, data) == [null |-> FALSE, status |-> status, data |-> data]
NullResponse == [null |-> TRUE, status |-> Undefined, data |-> "undefined"]
Sentinel == [null |-> FALSE, status |-> 0, data |-> "undefined"]

(***************************************************************************)
(* createQueryFn: what one run of the query function returns or throws,    *)
(* given the outcome of its transport call.                                *)
(***************************************************************************)
Returns(response) == [ok |-> TRUE, response |-> response, error |-> NullError]
Throws(error) == [ok |-> FALSE, response |-> NullResponse, error |-> error]

\* createQueryFn without the response.ok check
createQueryFn_noOkCheck(url, outcome) ==
  IF outcome.kind = "reject"
  THEN Throws(transformError(outcome.error, url))
  ELSE LET parsed == IF outcome.body # ""
                     THEN JSONparse(outcome.body)
                     ELSE [throws |-> FALSE, value |-> "{}"]
       IN  IF parsed.throws
           THEN Throws(transformError(
                  MkError("SyntaxError",
                          <<"Failed", "to", "parse", "response", "from", url>>,
                          Undefined), url))
           ELSE Returns(I18nextResponse(outcome.status, parsed.value))

createQueryFn(url, outcome) ==
  IF outcome.kind = "reject"
  THEN Throws(transformError(outcome.error, url))
  ELSE IF ~ResponseOk(outcome.status)
  THEN Throws(transformError(
         MkError("Error", <<"HTTP", ToString(outcome.status), outcome.statusText>>,
                 outcome.status), url))
  ELSE LET parsed == IF outcome.body # ""
                     THEN JSONparse(outcome.body)
                     ELSE [throws |-> FALSE, value |-> "{}"]
       IN  IF parsed.throws
           THEN Throws(transformError(
                  MkError("SyntaxError",
                          <<"Failed", "to", "parse", "response", "from", url>>,
                          Undefined), url))
           ELSE Returns(I18nextResponse(outcome.status, parsed.value))

(***************************************************************************)
(* State.                                                                  *)
(*   options        this.options.tanstackQuery of the backend              *)
(*   calls          the requestWithCallback calls: position, arguments,    *)
(*                  and how the awaited request() settled                  *)
(*   cbLog          the invocations of each call's callback, in order      *)
(*   queries        the query client's cache, one query per key            *)
(*   transport      per key, the transport calls now in flight             *)
(*   classified     an error on its way through the error handler (used    *)
(*                  by the specification of the error handler alone)       *)
(*   configured     an options object on its way through the availability  *)
(*                  guards, the constructor and the query options          *)
(*   backends       two backends constructed from two options objects and  *)
(*                  what a read of each yields                             *)
(*   built          a request on its way through the request builder       *)
(*   keyed          two requests and the query keys made for them          *)
(*   delayed        attempt indexes and the retry delays computed for them *)
(*   setup          a call of setupReactNativeQuery: its module loading,   *)
(*                  its listeners and its cleanup function                 *)
(*   client         the entries of a query client shared with other users  *)
(*                  of the application, and which of them are invalidated  *)
(*   shared         two backends with one query client requesting one URL  *)
(***************************************************************************)
VARIABLES options, calls, cbLog, queries, transport, classified, configured,
          backends, built, keyed, delayed, setup, client, shared

\* the variables of the request path
requestVars == <<options, calls, cbLog, queries, transport>>

\* the variables of the specifications of one component alone
unitVars ==
  <<classified, configured, backends, built, keyed, delayed, setup, client,
    shared>>

vars == <<requestVars, unitVars>>

Calls == 1..MaxCalls

NotSettled ==
  [state |-> "none", response |-> NullResponse, error |-> NullError]

Resolved(response) ==
  [state |-> "resolved", response |-> response, error |-> NullError]

Rejected(error) ==
  [state |-> "rejected", response |-> NullResponse, error |-> error]

\* a call: cached tells that fetchQuery answered it from cached data
IdleCall ==
  [st |-> "idle", url |-> "", payload |-> NoPayload, settled |-> NotSettled,
   cached |-> FALSE]

PendingCall(url, payload) ==
  [st |-> "pending", url |-> url, payload |-> payload, settled |-> NotSettled,
   cached |-> FALSE]

\* a query: cached data and its freshness; while a fetch runs, the retryer's
\* phase and counters, the URL bound in the query function of the fetch, and
\* the calls awaiting the fetch
NoQuery ==
  [data |-> NullResponse, fresh |-> FALSE, phase |-> "idle", failureCount |-> 0,
   attempts |-> 0, url |-> "", waiters |-> {}]

Fetching(q) == q.phase # "idle"

NotClassified ==
  [stage |-> "none", raw |-> NullError, url |-> "", once |-> NullError,
   twice |-> NullError]

\* nothing on its way through the availability guards, the request builder,
\* the key factory or the delay function
NotConfigured == [stage |-> "none"]
NotCompared == [stage |-> "none"]
NotBuilt == [stage |-> "none"]
NotKeyed == [stage |-> "none"]
NotDelayed == [stage |-> "none"]
NotSetUp == [stage |-> "none"]
NoClient == [stage |-> "none"]
NotShared == [stage |-> "none"]

Init ==
  /\ options \in { constructor(u) : u \in UserOptions }
  /\ calls = [c \in Calls |-> IdleCall]
  /\ cbLog = [c \in Calls |-> << >>]
  /\ queries = [k \in Keys |-> NoQuery]
  /\ transport = [k \in Keys |-> 0]
  /\ classified = NotClassified
  /\ configured = NotConfigured
  /\ backends = NotCompared
  /\ built = NotBuilt
  /\ keyed = NotKeyed
  /\ delayed = NotDelayed
  /\ setup = NotSetUp
  /\ client = NoClient
  /\ shared = NotShared

(***************************************************************************)
(* The retry function request() hands to the query client.                 *)
(***************************************************************************)
maxRetries == retryBound(options)

\* retry with the bound off by one
retry_offByOne(failureCount, error) ==
  IF failureCount > maxRetries THEN FALSE ELSE shouldRetry(error)

retry(failureCount, error) ==
  IF failureCount >= maxRetries THEN FALSE ELSE shouldRetry(error)

\* request() that runs the query function itself for every call
request_noSharing(c, url, payload) ==
  LET k == QueryKey(url, payload)
      q == queries[k]
  IN  /\ calls' = [calls EXCEPT ![c] = PendingCall(url, payload)]
      /\ queries' = [queries EXCEPT ![k].phase = "transport",
                                    ![k].failureCount = 0,
                                    ![k].attempts = 1,
                                    ![k].url = url,
                                    ![k].waiters = @ \cup {c}]
      /\ transport' = [transport EXCEPT ![k] = @ + 1]

\* request() that never answers from the data cached for the key
request_noCache(c, url, payload) ==
  LET k == QueryKey(url, payload)
      q == queries[k]
  IN  IF Fetching(q)
      THEN /\ calls' = [calls EXCEPT ![c] = PendingCall(url, payload)]
           /\ queries' = [queries EXCEPT ![k].waiters = @ \cup {c}]
           /\ UNCHANGED transport
      ELSE /\ calls' = [calls EXCEPT ![c] = PendingCall(url, payload)]
           /\ queries' = [queries EXCEPT ![k].phase = "transport",
                                         ![k].failureCount = 0,
                                         ![k].attempts = 1,
                                         ![k].url = url,
                                         ![k].waiters = {c}]
           /\ transport' = [transport EXCEPT ![k] = @ + 1]

(***************************************************************************)
(* request(): builds the key and the query function and awaits             *)
(* queryClient.fetchQuery.  The query client answers from fresh data,      *)
(* joins the fetch in flight for the key, or starts a fetch, whose first   *)
(* run of the query function issues the transport call at once.            *)
(***************************************************************************)
request(c, url, payload) ==
  LET k == QueryKey(url, payload)
      q == queries[k]
  IN  IF ~q.data.null /\ q.fresh /\ ~Fetching(q)
      THEN /\ calls' = [calls EXCEPT ![c] = [st |-> "settled", url |-> url,
                                             payload |-> payload,
                                             settled |-> Resolved(q.data),
                                             cached |-> TRUE]]
           /\ UNCHANGED <<queries, transport>>
      ELSE IF Fetching(q)
      THEN /\ calls' = [calls EXCEPT ![c] = PendingCall(url, payload)]
           /\ queries' = [queries EXCEPT ![k].waiters = @ \cup {c}]
           /\ UNCHANGED transport
      ELSE /\ calls' = [calls EXCEPT ![c] = PendingCall(url, payload)]
           /\ queries' = [queries EXCEPT ![k].phase = "transport",
                                         ![k].failureCount = 0,
                                         ![k].attempts = 1,
                                         ![k].url = url,
                                         ![k].waiters = {c}]
           /\ transport' = [transport EXCEPT ![k] = @ + 1]

(***************************************************************************)
(* requestWithCallback, up to its await: the call starts request().        *)
(* Calls are numbered in the order in which they are made.                 *)
(***************************************************************************)
requestWithCallback(c, url, payload) ==
  /\ calls[c].st = "idle"
  /\ IF c = 1 THEN TRUE ELSE calls[c - 1].st # "idle"
  /\ request(c, url, payload)
  /\ UNCHANGED <<options, cbLog, unitVars>>

(***************************************************************************)
(* How the request() of a caller settles when the fetch it awaits settles  *)
(* with result r of the query function: it returns the response, or its    *)
(* catch block throws the error normalised once more, for the caller's URL.*)
(***************************************************************************)
requestSettles(url, r) ==
  IF r.ok THEN Resolved(r.response) ELSE Rejected(transformError(r.error, url))

(***************************************************************************)
(* A transport call of the fetch for key k settles with outcome o.  The    *)
(* query function returns or throws; on a throw the retryer asks retry     *)
(* (failureCount, error) and either sleeps before the next run or rejects  *)
(* the fetch.  When the fetch settles, the request() of every caller       *)
(* waiting on it settles.                                                  *)
(***************************************************************************)
TransportSettles(k, o) ==
  LET q == queries[k]
      r == createQueryFn(q.url, o)
  IN  /\ transport[k] > 0
      /\ q.phase = "transport"
      /\ transport' = [transport EXCEPT ![k] = @ - 1]
      /\ IF ~r.ok /\ retry(q.failureCount, r.error)
         THEN /\ queries' = [queries EXCEPT
                   ![k] = [q EXCEPT !.phase = "delay", !.failureCount = @ + 1]]
              /\ UNCHANGED calls
         ELSE /\ queries' = [queries EXCEPT
                   ![k] = [q EXCEPT
                     !.data = IF r.ok THEN r.response ELSE @,
                     !.fresh = IF r.ok THEN Truthy(options.staleTime) ELSE @,
                     !.phase = "idle", !.failureCount = 0, !.attempts = 0,
                     !.url = "", !.waiters = {}]]
              /\ calls' = [c \in Calls |->
                   IF c \in q.waiters
                   THEN [calls[c] EXCEPT !.st = "settled",
                           !.settled = requestSettles(calls[c].url, r)]
                   ELSE calls[c]]
      /\ UNCHANGED <<options, cbLog, unitVars>>

(***************************************************************************)
(* The retry delay of the fetch for key k elapses: the retryer runs the    *)
(* query function again, which issues the next transport call.             *)
(***************************************************************************)
RetryDelayElapses(k) ==
  /\ queries[k].phase = "delay"
  /\ queries' = [queries EXCEPT ![k].phase = "transport", ![k].attempts = @ + 1]
  /\ transport' = [transport EXCEPT ![k] = @ + 1]
  /\ UNCHANGED <<options, calls, cbLog, unitVars>>

(***************************************************************************)
(* requestWithCallback after its await.  callback(null, response) on a     *)
(* resolved request; when that callback throws (throws, the behaviour of   *)
(* the caller's callback), the catch block runs and calls the callback     *)
(* again with the processed exception.  On a rejected request the catch    *)
(* block calls the callback with the processed error.                      *)
(***************************************************************************)
CallbackArgs(error, response) == [error |-> error, response |-> response]

\* what a throwing callback throws
CallbackException == MkError("TypeError", <<"Cannot", "render">>, Undefined)

CatchBlock(error) ==
  LET processedError == processForCallback(error)
  IN  CallbackArgs(processedError.error,
                   IF processedError.retry THEN Sentinel ELSE NullResponse)

requestWithCallback_resume(c, throws) ==
  /\ calls[c].st = "settled"
  /\ calls' = [calls EXCEPT ![c].st = "done"]
  /\ cbLog' = [cbLog EXCEPT ![c] =
       IF calls[c].settled.state = "resolved"
       THEN <<CallbackArgs(CbError(TRUE, NoMessage), calls[c].settled.response)>>
            \o (IF throws THEN <<CatchBlock(CallbackException)>> ELSE << >>)
       ELSE <<CatchBlock(calls[c].settled.error)>>]
  /\ UNCHANGED <<options, queries, transport, unitVars>>

(***************************************************************************)
(* The freshness window (staleTime) of the data cached for key k ends.     *)
(***************************************************************************)
StaleTimeElapses(k) ==
  /\ ~queries[k].data.null
  /\ queries[k].fresh
  /\ queries' = [queries EXCEPT ![k].fresh = FALSE]
  /\ UNCHANGED <<options, calls, cbLog, transport, unitVars>>

Next ==
  \/ \E c \in Calls, r \in Requests : requestWithCallback(c, r[1], r[2])
  \/ \E k \in Keys, o \in Outcomes : TransportSettles(k, o)
  \/ \E k \in Keys : RetryDelayElapses(k)
  \/ \E c \in Calls, throws \in BOOLEAN : requestWithCallback_resume(c, throws)
  \/ \E k \in Keys : StaleTimeElapses(k)

Spec == Init /\ [][Next]_vars

(***************************************************************************)
(* The scenario of a server that recovers: it answers the first transport  *)
(* call of every fetch with HTTP 500 and every later one with HTTP 200.    *)
(* Every transport call is answered, every retry delay elapses and every   *)
(* continuation runs.                                                      *)
(***************************************************************************)
RecoveringServer(attempt) ==
  IF attempt = 1
  THEN HttpResponse(500, "Error", "")
  ELSE HttpResponse(200, "OK", "{key:passing}")

RecoveringServerResponds ==
  \E k \in Keys : TransportSettles(k, RecoveringServer(queries[k].attempts))

RetryTimerFires == \E k \in Keys : RetryDelayElapses(k)

ContinuationRuns ==
  \E c \in Calls, throws \in BOOLEAN : requestWithCallback_resume(c, throws)

NextRecover ==
  \/ \E c \in Calls, r \in Requests : requestWithCallback(c, r[1], r[2])
  \/ RecoveringServerResponds
  \/ RetryTimerFires
  \/ ContinuationRuns
  \/ \E k \in Keys : StaleTimeElapses(k)

SpecRecover ==
  /\ Init
  /\ [][NextRecover]_vars
  /\ WF_vars(RecoveringServerResponds)
  /\ WF_vars(RetryTimerFires)
  /\ WF_vars(ContinuationRuns)

(***************************************************************************)
(* The request path of a backend whose tanstackQuery.retry is not a        *)
(* number: the boolean false, or a function.                               *)
(***************************************************************************)
RetryOptions ==
  {UserSection(5 * 60 * 1000, RetryBoolean(FALSE))} \cup
  { UserSection(Undefined, RetryFunction(fn)) : fn \in RetryFunctions }

InitRetryOption ==
  /\ options \in { constructor(u) : u \in RetryOptions }
  /\ calls = [c \in Calls |-> IdleCall]
  /\ cbLog = [c \in Calls |-> << >>]
  /\ queries = [k \in Keys |-> NoQuery]
  /\ transport = [k \in Keys |-> 0]
  /\ classified = NotClassified
  /\ configured = NotConfigured
  /\ backends = NotCompared
  /\ built = NotBuilt
  /\ keyed = NotKeyed
  /\ delayed = NotDelayed
  /\ setup = NotSetUp
  /\ client = NoClient
  /\ shared = NotShared

SpecRetryOption == InitRetryOption /\ [][Next]_vars

(***************************************************************************)
(* The error handler alone: a raw error is normalised for a URL, as the    *)
(* query function does, normalised again, as request() does, and handed    *)
(* to the catch block of requestWithCallback.                              *)
(***************************************************************************)
RawError(name, message, status, respStatus) ==
  [name |-> name, message |-> message, status |-> status,
   respStatus |-> respStatus, retry |-> FALSE, url |-> ""]

RawErrors ==
  { RawError(n, m, s, rs) :
      n \in {"Error", "SyntaxError"},
      m \in { NoMessage, <<"Failed", "to", "fetch">>, <<"Invalid", "URL">>,
              <<"Unexpected", "token", "in", "JSON">>,
              <<"The", "operation", "was", "aborted">>,
              <<"HTTP", "Gateway", "Timeout">> },
      s \in {Undefined, 0, 304, 399, 400, 404, 499, 500, 503, 599, 600},
      rs \in {Undefined, 404, 503} }

ClassifiedUrls == {"/locales/en", "/download/en"}

\* no request under way
NoRequests ==
  /\ options = constructor(NoSection)
  /\ calls = [c \in Calls |-> IdleCall]
  /\ cbLog = [c \in Calls |-> << >>]
  /\ queries = [k \in Keys |-> NoQuery]
  /\ transport = [k \in Keys |-> 0]

InitClassify ==
  /\ NoRequests
  /\ configured = NotConfigured
  /\ backends = NotCompared
  /\ built = NotBuilt
  /\ keyed = NotKeyed
  /\ delayed = NotDelayed
  /\ setup = NotSetUp
  /\ client = NoClient
  /\ shared = NotShared
  /\ classified \in { [stage |-> "raw", raw |-> e, url |-> u, once |-> NullError,
                       twice |-> NullError] : e \in RawErrors, u \in ClassifiedUrls }

ClassifyOnce ==
  /\ classified.stage = "raw"
  /\ classified' = [classified EXCEPT
       !.stage = "once", !.once = transformError(classified.raw, classified.url)]
  /\ UNCHANGED <<requestVars, configured, backends, built, keyed, delayed,
               setup, client, shared>>

ClassifyTwice ==
  /\ classified.stage = "once"
  /\ classified' = [classified EXCEPT
       !.stage = "twice", !.twice = transformError(classified.once, classified.url)]
  /\ UNCHANGED <<requestVars, configured, backends, built, keyed, delayed,
               setup, client, shared>>

NextClassify == ClassifyOnce \/ ClassifyTwice

SpecClassify == InitClassify /\ [][NextClassify]_vars

(***************************************************************************)
(* The configuration alone: an options object goes through the two         *)
(* availability guards, and a backend is constructed from it whose         *)
(* request() builds the query options for fetchQuery.                      *)
(***************************************************************************)
NotEvaluated == "not evaluated"

JsBoolean(b) == IF b THEN "true" ELSE "false"

\* the tanstackQuery sections users write
Sections ==
  { Section(e, st, ct, r, rf, rr) :
      e \in {"undefined", "true", "false"},
      st \in {Undefined, 10000},
      ct \in {Undefined, 20000},
      r \in {RetryUndefined} \cup { RetryNumber(n) : n \in 0..MaxRetryOpt },
      rf \in {"undefined", "true"},
      rr \in {"undefined", "false"} }

OptionsObjects ==
  { OptionsObject(qc, sec) : qc \in BOOLEAN, sec \in {NoSection} \cup Sections }

NotConstructed == [enabled |-> "undefined", staleTime |-> Undefined,
                   cacheTime |-> Undefined, retry |-> RetryUndefined,
                   refetchOnWindowFocus |-> "undefined",
                   refetchOnReconnect |-> "undefined"]

InitConfigure ==
  /\ NoRequests
  /\ classified = NotClassified
  /\ backends = NotCompared
  /\ built = NotBuilt
  /\ keyed = NotKeyed
  /\ delayed = NotDelayed
  /\ setup = NotSetUp
  /\ client = NoClient
  /\ shared = NotShared
  /\ configured \in
       { [stage |-> "options", user |-> o, available |-> NotEvaluated,
          enabled |-> NotEvaluated, tanstackQuery |-> NotConstructed,
          queryOptions |-> queryOptions(NotConstructed)] : o \in OptionsObjects }

GuardAvailable ==
  /\ configured.stage # "none"
  /\ configured.available = NotEvaluated
  /\ configured' = [configured EXCEPT
       !.available = JsBoolean(isQueryClientAvailable(configured.user))]
  /\ UNCHANGED <<requestVars, classified, backends, built, keyed, delayed,
               setup, client, shared>>

GuardEnabled ==
  /\ configured.stage # "none"
  /\ configured.enabled = NotEvaluated
  /\ configured' = [configured EXCEPT
       !.enabled = JsBoolean(isTanstackQueryEnabled(configured.user))]
  /\ UNCHANGED <<requestVars, classified, backends, built, keyed, delayed,
               setup, client, shared>>

\* new TanStackI18nextBackend(queryClient, options)
Construct ==
  /\ configured.stage = "options"
  /\ configured.user.queryClient
  /\ configured' = [configured EXCEPT
       !.stage = "constructed",
       !.tanstackQuery = constructor(configured.user.tanstackQuery)]
  /\ UNCHANGED <<requestVars, classified, backends, built, keyed, delayed,
               setup, client, shared>>

\* request() of that backend builds the query options
BuildQueryOptions ==
  /\ configured.stage = "constructed"
  /\ configured' = [configured EXCEPT
       !.stage = "requested",
       !.queryOptions = queryOptions(configured.tanstackQuery)]
  /\ UNCHANGED <<requestVars, classified, backends, built, keyed, delayed,
               setup, client, shared>>

NextConfigure ==
  \/ GuardAvailable
  \/ GuardEnabled
  \/ Construct
  \/ BuildQueryOptions

SpecConfigure == InitConfigure /\ [][NextConfigure]_vars

(***************************************************************************)
(* The outer Backend and its fallback.  At construction it creates a       *)
(* TanStackI18nextBackend when its availability guard (one of the two      *)
(* guards above) accepts the options, and otherwise keeps tanstackBackend   *)
(* null.  A read goes through the TanStackI18nextBackend when there is     *)
(* one, and otherwise performs the transport call directly, exactly once.  *)
(* The server answers the first transport call of a read with script[1]    *)
(* and every later one with script[2].                                     *)
(***************************************************************************)
Guards == {"isQueryClientAvailable", "isTanstackQueryEnabled"}

GuardAccepts(guard, o) ==
  IF guard = "isQueryClientAvailable"
  THEN isQueryClientAvailable(o)
  ELSE isTanstackQueryEnabled(o)

BackendInit(guard, o) ==
  [tanstackBackend |-> GuardAccepts(guard, o),
   tanstackQuery |-> constructor(o.tanstackQuery)]

\* what the read's callback receives: the error value and the data (on
\* success) or the retry signal (on failure)
ReadCallback(args) ==
  [error |-> args.error,
   data |-> IF args.error.null THEN args.response.data ELSE "undefined",
   retry |-> ~args.error.null /\ ~args.response.null]

\* the direct path: one transport call, its failure normalised
directRequest(url, script) ==
  LET r == createQueryFn(url, script[1])
  IN  IF r.ok
      THEN CallbackArgs(CbError(TRUE, NoMessage), r.response)
      ELSE CatchBlock(r.error)

\* the cache path: requestWithCallback of the TanStackI18nextBackend, the
\* query client retrying as the retry function of request() tells it
cachedRequest(tanstackQuery, url, script) ==
  LET r1 == createQueryFn(url, script[1])
      retried == ~r1.ok /\ 0 < retryBound(tanstackQuery) /\ shouldRetry(r1.error)
      r == IF retried THEN createQueryFn(url, script[2]) ELSE r1
      settled == requestSettles(url, r)
  IN  IF settled.state = "resolved"
      THEN CallbackArgs(CbError(TRUE, NoMessage), settled.response)
      ELSE CatchBlock(settled.error)

Backend_read(backend, url, script) ==
  ReadCallback(IF backend.tanstackBackend
               THEN cachedRequest(backend.tanstackQuery, url, script)
               ELSE directRequest(url, script))

FallbackOptions ==
  { OptionsObject(qc, sec) :
      qc \in BOOLEAN,
      sec \in {NoSection} \cup
              { Section(e, Undefined, Undefined, RetryUndefined,
                        "undefined", "undefined") :
                  e \in {"undefined", "true", "false"} } }

Scripts ==
  { <<o1, o2>> : o1 \in Outcomes,
                 o2 \in { HttpResponse(200, "OK", "{key:passing}"),
                          HttpResponse(500, "Error", "") } }

NotRead == [error |-> CbError(TRUE, NoMessage), data |-> "not read", retry |-> FALSE]

NoBackend == [tanstackBackend |-> FALSE, tanstackQuery |-> NotConstructed]

InitFallback ==
  /\ NoRequests
  /\ classified = NotClassified
  /\ configured = NotConfigured
  /\ built = NotBuilt
  /\ keyed = NotKeyed
  /\ delayed = NotDelayed
  /\ setup = NotSetUp
  /\ client = NoClient
  /\ shared = NotShared
  /\ backends \in
       { [stage |-> "options", guard |-> g, script |-> sc,
          user |-> <<o1, o2>>, backend |-> <<NoBackend, NoBackend>>,
          read |-> <<NotRead, NotRead>>] :
           g \in Guards, sc \in Scripts,
           o1 \in FallbackOptions, o2 \in FallbackOptions }

\* new Backend(services, options), for both options objects
ConstructBackends ==
  /\ backends.stage = "options"
  /\ backends' = [backends EXCEPT
       !.stage = "constructed",
       !.backend = [i \in {1, 2} |-> BackendInit(backends.guard, backends.user[i])]]
  /\ UNCHANGED <<requestVars, classified, configured, built, keyed, delayed,
               setup, client, shared>>

\* backend i reads /locales/en, the server following the script
ReadBackend(i) ==
  /\ backends.stage = "constructed"
  /\ backends.read[i] = NotRead
  /\ backends' = [backends EXCEPT
       !.read[i] = Backend_read(backends.backend[i], "/locales/en", backends.script)]
  /\ UNCHANGED <<requestVars, classified, configured, built, keyed, delayed,
               setup, client, shared>>

NextFallback ==
  \/ ConstructBackends
  \/ \E i \in {1, 2} : ReadBackend(i)

SpecFallback == InitFallback /\ [][NextFallback]_vars

(***************************************************************************)
(* The request builder.  A URL and a query string are sequences of tokens; *)
(* a header mapping is a function from header names to values; a           *)
(* RequestInit has the fields of the model, NotSet where it has no such    *)
(* key.                                                                    *)
(***************************************************************************)
NotSet == "not set"

NoHeaders == [n \in {} |-> ""]

Header(name, value) == [n \in {name} |-> value]

\* Object.assign(target, source) and { ...target, ...source }
Assign(target, source) ==
  [n \in DOMAIN target \cup DOMAIN source |->
     IF n \in DOMAIN source THEN source[n] ELSE target[n]]

RequestInit(method, hasHeaders, headers, body, cache) ==
  [method |-> method, hasHeaders |-> hasHeaders, headers |-> headers,
   body |-> body, cache |-> cache]

EmptyRequestInit ==
  [method |-> NotSet, hasHeaders |-> FALSE, headers |-> NoHeaders,
   body |-> NotSet, cache |-> NotSet]

\* encodeURIComponent on the strings of the model
EncodeTable ==
  [w \in {"a b", "x&y", "q?", "k=v"} |->
     CASE w = "a b" -> "a%20b"
       [] w = "x&y" -> "x%26y"
       [] w = "q?" -> "q%3F"
       [] w = "k=v" -> "k%3Dv"]

encodeURIComponent(w) == IF w \in DOMAIN EncodeTable THEN EncodeTable[w] ELSE w

\* entries.map(([key, value]) => `${enc(key)}=${enc(value)}`).join("&")
RECURSIVE JoinEntries(_)
JoinEntries(entries) ==
  IF entries = << >>
  THEN << >>
  ELSE LET pair == <<encodeURIComponent(entries[1][1]), "=",
                     encodeURIComponent(entries[1][2])>>
       IN  IF Len(entries) = 1
           THEN pair
           ELSE pair \o <<"&">> \o JoinEntries(Tail(entries))

UrlIncludes(url, part) == \E i \in DOMAIN url : url[i] = part

NoParams == [defined |-> FALSE, entries |-> << >>]

Params(entries) == [defined |-> TRUE, entries |-> entries]

\* addQueryString that always joins with "?"
addQueryString_alwaysQuestionMark(url, params) ==
  IF ~params.defined
  THEN url
  ELSE LET queryString == JoinEntries(params.entries)
       IN  IF queryString = << >>
           THEN url
           ELSE url \o <<"?">> \o queryString

addQueryString(url, params) ==
  IF ~params.defined
  THEN url
  ELSE LET queryString == JoinEntries(params.entries)
       IN  IF queryString = << >>
           THEN url
           ELSE url \o <<IF UrlIncludes(url, "?") THEN "&" ELSE "?">> \o queryString

\* JSON.stringify and a custom stringify, on the payloads of the model
JSONstringify(payload) == <<"JSON", payload>>

customStringify(payload) == <<"custom", payload>>

NoBody == <<"undefined">>

\* the payloads handed to the builder: none, a falsy one, and two objects
BuilderPayloads == {NoPayload, "", "{k:v}", "{}"}

UserAgent == "i18next-http-backend (node)"

\* the options the builder reads: customHeaders and requestOptions are
\* absent ("undefined"), a value ("static") or a function ("function")
\* returning the value
BuilderOptions(customHeaders, requestOptions, stringify, withCredentials, crossDomain, queryStringParams) ==
  [customHeaders |-> customHeaders, requestOptions |-> requestOptions,
   stringify |-> stringify, withCredentials |-> withCredentials,
   crossDomain |-> crossDomain, queryStringParams |-> queryStringParams]

Configured(kind, value) == [kind |-> kind, value |-> value]

\* buildFetchOptions that leaves the method at GET
buildFetchOptions_alwaysGet(o, isNode, payload) ==
  LET customHeaders == o.customHeaders
      h1 == IF customHeaders.kind # "undefined"
            THEN Assign(NoHeaders, customHeaders.value)
            ELSE NoHeaders
      h2 == IF isNode THEN Assign(h1, Header("User-Agent", UserAgent)) ELSE h1
      headers == IF PayloadTruthy(payload)
                 THEN Assign(h2, Header("Content-Type", "application/json"))
                 ELSE h2
      requestOptions == IF o.requestOptions.kind # "undefined"
                        THEN o.requestOptions.value
                        ELSE EmptyRequestInit
      merged == Assign(headers, requestOptions.headers)
  IN  [method |-> IF requestOptions.method # NotSet
                  THEN requestOptions.method
                  ELSE "GET",
       headers |-> IF requestOptions.hasHeaders THEN requestOptions.headers
                   ELSE merged,
       body |-> IF requestOptions.body # NotSet
                THEN <<requestOptions.body>>
                ELSE IF PayloadTruthy(payload)
                THEN (IF o.stringify = "custom"
                      THEN customStringify(payload)
                      ELSE JSONstringify(payload))
                ELSE NoBody,
       credentials |-> IF o.withCredentials THEN "include" ELSE "same-origin",
       mode |-> IF o.crossDomain THEN "cors" ELSE "same-origin",
       cache |-> requestOptions.cache]

buildFetchOptions(o, isNode, payload) ==
  LET customHeaders == o.customHeaders
      h1 == IF customHeaders.kind # "undefined"
            THEN Assign(NoHeaders, customHeaders.value)
            ELSE NoHeaders
      h2 == IF isNode THEN Assign(h1, Header("User-Agent", UserAgent)) ELSE h1
      headers == IF PayloadTruthy(payload)
                 THEN Assign(h2, Header("Content-Type", "application/json"))
                 ELSE h2
      requestOptions == IF o.requestOptions.kind # "undefined"
                        THEN o.requestOptions.value
                        ELSE EmptyRequestInit
      merged == Assign(headers, requestOptions.headers)
  IN  [method |-> IF requestOptions.method # NotSet
                  THEN requestOptions.method
                  ELSE IF PayloadTruthy(payload) THEN "POST" ELSE "GET",
       headers |-> IF requestOptions.hasHeaders THEN requestOptions.headers
                   ELSE merged,
       body |-> IF requestOptions.body # NotSet
                THEN <<requestOptions.body>>
                ELSE IF PayloadTruthy(payload)
                THEN (IF o.stringify = "custom"
                      THEN customStringify(payload)
                      ELSE JSONstringify(payload))
                ELSE NoBody,
       credentials |-> IF o.withCredentials THEN "include" ELSE "same-origin",
       mode |-> IF o.crossDomain THEN "cors" ELSE "same-origin",
       cache |-> requestOptions.cache]

(***************************************************************************)
(* The request builder alone: for a backend with given options, the query  *)
(* function of a request for (url, payload) computes the final URL, builds *)
(* the fetch options and calls fetch with both.                            *)
(***************************************************************************)
CustomHeaderChoices ==
  { Configured("undefined", NoHeaders),
    Configured("static", Header("Authorization", "Bearer t")),
    Configured("static", Assign(Header("Content-Type", "text/plain"),
                                Header("Authorization", "Bearer t"))),
    Configured("function", Header("X-Trace", "1")),
    Configured("static", Header("User-Agent", "my-app")) }

RequestOptionChoices ==
  { Configured("undefined", EmptyRequestInit),
    Configured("static", RequestInit(NotSet, FALSE, NoHeaders, NotSet, "no-store")),
    Configured("static", RequestInit(NotSet, TRUE, Header("X-Trace", "2"),
                                     NotSet, NotSet)),
    Configured("static", RequestInit(NotSet, TRUE, Header("Authorization", "Basic u"),
                                     NotSet, NotSet)),
    Configured("function", RequestInit("PUT", FALSE, NoHeaders, NotSet, NotSet)),
    Configured("static", RequestInit(NotSet, FALSE, NoHeaders, "raw", NotSet)) }

ParamChoices ==
  { NoParams, Params(<< >>), Params(<< <<"v", "1">> >>),
    Params(<< <<"a b", "x&y">>, <<"lng", "en">> >>) }

BuilderUrls == { <<"/locales/en">>, <<"/locales/en", "?", "cache=no">> }

BuilderOptionChoices ==
  { BuilderOptions(ch, ro, st, wc, wc, qs) :
      ch \in CustomHeaderChoices, ro \in RequestOptionChoices,
      st \in {"undefined", "custom"}, wc \in BOOLEAN, qs \in ParamChoices }

NotFetched == [url |-> << >>, method |-> NotSet, headers |-> NoHeaders,
               body |-> NoBody]

InitBuild ==
  /\ NoRequests
  /\ classified = NotClassified
  /\ configured = NotConfigured
  /\ backends = NotCompared
  /\ keyed = NotKeyed
  /\ delayed = NotDelayed
  /\ setup = NotSetUp
  /\ client = NoClient
  /\ shared = NotShared
  /\ built \in
       { [stage |-> "called", options |-> o, isNode |-> n, url |-> u,
          payload |-> pl, finalUrl |-> << >>,
          fetchOptions |-> buildFetchOptions(o, n, NoPayload),
          fetched |-> NotFetched] :
           o \in BuilderOptionChoices, n \in BOOLEAN, u \in BuilderUrls,
           pl \in BuilderPayloads }

\* const finalUrl = this.addQueryString(url, this.options.queryStringParams)
AddQueryString ==
  /\ built.stage = "called"
  /\ built' = [built EXCEPT
       !.stage = "url",
       !.finalUrl = addQueryString(built.url, built.options.queryStringParams)]
  /\ UNCHANGED <<requestVars, classified, configured, backends, keyed, delayed,
               setup, client, shared>>

\* const fetchOptions = this.buildFetchOptions(payload)
BuildFetchOptions ==
  /\ built.stage = "url"
  /\ built' = [built EXCEPT
       !.stage = "options",
       !.fetchOptions = buildFetchOptions(built.options, built.isNode, built.payload)]
  /\ UNCHANGED <<requestVars, classified, configured, backends, keyed, delayed,
               setup, client, shared>>

\* fetch(finalUrl, fetchOptions)
Fetch ==
  /\ built.stage = "options"
  /\ built' = [built EXCEPT
       !.stage = "fetched",
       !.fetched = [url |-> built.finalUrl,
                    method |-> built.fetchOptions.method,
                    headers |-> built.fetchOptions.headers,
                    body |-> built.fetchOptions.body]]
  /\ UNCHANGED <<requestVars, classified, configured, backends, keyed, delayed,
               setup, client, shared>>

NextBuild ==
  \/ AddQueryString
  \/ BuildFetchOptions
  \/ Fetch

SpecBuild == InitBuild /\ [][NextBuild]_vars

(***************************************************************************)
(* Reading the cache: queryClient.getQueryData(key) gives the data cached  *)
(* under exactly that key, and nothing for a key without a query;          *)
(* getCachedData builds the key as request() does.                         *)
(***************************************************************************)
getQueryData(key) ==
  IF key \in DOMAIN queries THEN queries[key].data ELSE NullResponse

getCachedData(url, payload) == getQueryData(QueryKey(url, payload))

(***************************************************************************)
(* The key factories alone: keys are made for two requests, each a load    *)
(* (no payload) or a save (with its payload), by the factory request()     *)
(* uses and by the factory of lib/tanstack/query-keys.ts.                  *)
(***************************************************************************)
KeyedUrls == {"/locales/en", "/locales/de", "/locales/add/en"}

KeyedRequests ==
  { [kind |-> "load", url |-> u, payload |-> NoPayload] : u \in KeyedUrls } \cup
  { [kind |-> "save", url |-> u, payload |-> pl] :
      u \in KeyedUrls, pl \in {"{k:v}", "{k:w}"} }

NoKey == << >>

InitKeys ==
  /\ NoRequests
  /\ classified = NotClassified
  /\ configured = NotConfigured
  /\ backends = NotCompared
  /\ built = NotBuilt
  /\ delayed = NotDelayed
  /\ setup = NotSetUp
  /\ client = NoClient
  /\ shared = NotShared
  /\ keyed \in
       { [stage |-> "requests", requests |-> <<a, b>>, key |-> <<NoKey, NoKey>>,
          tanstackKey |-> <<NoKey, NoKey>>] :
           a \in KeyedRequests, b \in KeyedRequests }

\* the keys request() makes for the two requests
MakeKeys ==
  /\ keyed.stage # "none"
  /\ keyed.key = <<NoKey, NoKey>>
  /\ keyed' = [keyed EXCEPT
       !.key = [i \in {1, 2} |->
                  QueryKey(keyed.requests[i].url, keyed.requests[i].payload)]]
  /\ UNCHANGED <<requestVars, classified, configured, backends, built, delayed,
               setup, client, shared>>

\* the keys of lib/tanstack/query-keys.ts for the two requests
MakeTanstackKeys ==
  /\ keyed.stage # "none"
  /\ keyed.tanstackKey = <<NoKey, NoKey>>
  /\ keyed' = [keyed EXCEPT
       !.tanstackKey = [i \in {1, 2} |->
          IF keyed.requests[i].kind = "load"
          THEN tanstack_queryKeys_load(keyed.requests[i].url)
          ELSE tanstack_queryKeys_create(keyed.requests[i].url,
                                         keyed.requests[i].payload)]]
  /\ UNCHANGED <<requestVars, classified, configured, backends, built, delayed,
               setup, client, shared>>

NextKeys == MakeKeys \/ MakeTanstackKeys

SpecKeys == InitKeys /\ [][NextKeys]_vars

(***************************************************************************)
(* The retry delay alone: the delays of two attempt indexes are computed.  *)
(***************************************************************************)
AttemptIndexes == 0..MaxAttemptIndex

NoDelay == -1

InitDelay ==
  /\ NoRequests
  /\ classified = NotClassified
  /\ configured = NotConfigured
  /\ backends = NotCompared
  /\ built = NotBuilt
  /\ keyed = NotKeyed
  /\ delayed \in
       { [stage |-> "indexes", attemptIndex |-> <<i, j>>,
          delay |-> <<NoDelay, NoDelay>>] :
           i \in AttemptIndexes, j \in AttemptIndexes }
  /\ setup = NotSetUp
  /\ client = NoClient
  /\ shared = NotShared

ComputeDelay(n) ==
  /\ delayed.stage # "none"
  /\ delayed.delay[n] = NoDelay
  /\ delayed' = [delayed EXCEPT
       !.delay[n] = getRetryDelay(delayed.attemptIndex[n])]
  /\ UNCHANGED <<requestVars, classified, configured, backends, built, keyed,
               setup, client, shared>>

NextDelay == \E n \in {1, 2} : ComputeDelay(n)

SpecDelay == InitDelay /\ [][NextDelay]_vars

(***************************************************************************)
(* setupReactNativeQuery.  react-native-config.ts holds two definitions of *)
(* it: the first wraps the module loading of each handler in try/catch,    *)
(* the second does not.  A call starts the two asynchronous handlers,      *)
(* each of which runs up to its first await, and returns the cleanup       *)
(* function; the imports settle later, one await at a time.                *)
(*   reactNative, netInfo   whether the module can be loaded               *)
(*   navigator              whether navigator.onLine exists                *)
(*   appState, network      where each handler stands                      *)
(*   listeners              the listeners subscribed at present            *)
(*   cleanupFunctions       the array the cleanup function runs through    *)
(*   cleanedUp              the cleanup function has been called           *)
(*   thrown                 the call threw instead of returning            *)
(*   unhandled              handlers whose promise rejected, with nobody   *)
(*                          handling the rejection                         *)
(***************************************************************************)
Definitions == {"first", "second"}

SetupState(definition, reactNative, netInfo, navigator) ==
  [stage |-> "none", definition |-> definition, reactNative |-> reactNative,
   netInfo |-> netInfo, navigator |-> navigator, appState |-> "idle",
   network |-> "idle", listeners |-> {}, cleanupFunctions |-> << >>,
   cleanedUp |-> FALSE, thrown |-> FALSE, unhandled |-> {}]

InitSetup ==
  /\ NoRequests
  /\ classified = NotClassified
  /\ configured = NotConfigured
  /\ backends = NotCompared
  /\ built = NotBuilt
  /\ keyed = NotKeyed
  /\ delayed = NotDelayed
  /\ setup \in { SetupState(d, rn, ni, nav) :
                   d \in Definitions, rn \in BOOLEAN, ni \in BOOLEAN,
                   nav \in BOOLEAN }
  /\ client = NoClient
  /\ shared = NotShared

\* setupReactNativeQuery(queryClient): setupAppStateHandling() and
\* setupNetworkHandling() each run up to their first await; the cleanup
\* function is returned
setupReactNativeQuery ==
  /\ setup.stage = "none"
  /\ setup' = [setup EXCEPT !.stage = "returned",
                            !.appState = "import react-native",
                            !.network = "import netinfo"]
  /\ UNCHANGED <<requestVars, classified, configured, backends, built, keyed,
                 delayed, client, shared>>

\* listener registration followed by cleanupFunctions.push(...)
Subscribe(s, names) ==
  [s EXCEPT !.listeners = @ \cup names,
            !.cleanupFunctions = Append(@, names)]

\* an await of setupAppStateHandling settles
setupAppStateHandling ==
  /\ setup.stage = "returned"
  /\ \/ /\ setup.appState = "import react-native"
        /\ setup' =
             IF setup.reactNative
             THEN [setup EXCEPT !.appState = "import react-query"]
             ELSE IF setup.definition = "first"
             THEN [setup EXCEPT !.appState = "skipped"]
             ELSE [setup EXCEPT !.appState = "rejected",
                                !.unhandled = @ \cup {"appState"}]
     \/ /\ setup.appState = "import react-query"
        /\ setup' =
             IF setup.definition = "first"
             THEN [setup EXCEPT !.appState = "import Platform"]
             ELSE [Subscribe(setup, {"change"}) EXCEPT !.appState = "subscribed"]
     \/ /\ setup.appState = "import Platform"
        /\ setup' = [Subscribe(setup, {"change"}) EXCEPT !.appState = "subscribed"]
  /\ UNCHANGED <<requestVars, classified, configured, backends, built, keyed,
                 delayed, client, shared>>

\* an await of setupNetworkHandling settles
setupNetworkHandling ==
  /\ setup.stage = "returned"
  /\ \/ /\ setup.network = "import netinfo"
        /\ setup' =
             IF setup.netInfo
             THEN [setup EXCEPT !.network = "import react-query"]
             ELSE IF setup.definition = "first"
             THEN [setup EXCEPT !.network = "fallback import react-query"]
             ELSE [setup EXCEPT !.network = "rejected",
                                !.unhandled = @ \cup {"network"}]
     \/ /\ setup.network = "import react-query"
        /\ setup' = [Subscribe(setup, {"netinfo"}) EXCEPT !.network = "subscribed"]
     \/ /\ setup.network = "fallback import react-query"
        /\ setup' =
             IF setup.navigator
             THEN [Subscribe(setup, {"online", "offline"}) EXCEPT
                     !.network = "fallback"]
             ELSE [setup EXCEPT !.network = "skipped"]
  /\ UNCHANGED <<requestVars, classified, configured, backends, built, keyed,
                 delayed, client, shared>>

\* the listeners left after the cleanup functions of the array have run
RECURSIVE RunCleanups(_, _)
RunCleanups(cleanupFunctions, listeners) ==
  IF cleanupFunctions = << >>
  THEN listeners
  ELSE RunCleanups(Tail(cleanupFunctions), listeners \ Head(cleanupFunctions))

\* the function setupReactNativeQuery returned is called
cleanup ==
  /\ setup.stage = "returned"
  /\ setup' = [setup EXCEPT
       !.listeners = RunCleanups(setup.cleanupFunctions, @),
       !.cleanedUp = TRUE]
  /\ UNCHANGED <<requestVars, classified, configured, backends, built, keyed,
                 delayed, client, shared>>

NextSetup ==
  \/ setupReactNativeQuery
  \/ setupAppStateHandling
  \/ setupNetworkHandling
  \/ cleanup

SpecSetup == InitSetup /\ [][NextSetup]_vars

(***************************************************************************)
(* invalidateQueries and clearCache on a query client the application      *)
(* shares: its cache holds entries of this backend and entries of other    *)
(* users, under keys of their own.  An element of a key that is not a      *)
(* string (undefined, a number) is written as one of NotStrings.           *)
(*   entries        the keys of the entries in the cache                   *)
(*   invalidated    the keys of the entries marked invalidated             *)
(***************************************************************************)
NumberSeven == "<7>"
NotStrings == {NoPayload, NumberSeven}

ForeignKeys ==
  { <<"cms", "page", "/locales/en">>, <<"users", "detail", "/users/7">>,
    <<"todos", "detail", NumberSeven>>, <<"todos">> }

ClientKeys == Keys \cup ForeignKeys

\* urlPattern: absent, or a string
NoPattern == "undefined"
Patterns == {NoPattern, "", "/locales", "/download/en", "en", "fr"}

\* the patterns each string includes as a substring, besides ""
IncludesTable ==
  [u \in {"/locales/en", "/download/en", "/locales/add/en", "/users/7"} |->
     CASE u = "/locales/en" -> {"/locales", "en"}
       [] u = "/download/en" -> {"/download/en", "en"}
       [] u = "/locales/add/en" -> {"/locales", "en"}
       [] u = "/users/7" -> {}]

\* url.includes(urlPattern)
StringIncludes(url, urlPattern) ==
  urlPattern = "" \/ urlPattern \in IncludesTable[url]

\* the predicate invalidateQueries hands to the query client
\* const [, , url] = query.queryKey
\* return typeof url === 'string' && url.includes(urlPattern)
invalidatePredicate(queryKey, urlPattern) ==
  /\ Len(queryKey) >= 3
  /\ queryKey[3] \notin NotStrings
  /\ StringIncludes(queryKey[3], urlPattern)

\* the query client's match of a key against a filter { queryKey: prefix }
PrefixMatches(queryKey, prefix) ==
  /\ Len(queryKey) >= Len(prefix)
  /\ SubSeq(queryKey, 1, Len(prefix)) = prefix

\* the entries invalidateQueries(urlPattern) has the query client invalidate
invalidateQueries(urlPattern) ==
  IF urlPattern # NoPattern /\ urlPattern # ""
  THEN { k \in client.entries : invalidatePredicate(k, urlPattern) }
  ELSE { k \in client.entries : PrefixMatches(k, queryKeys_all) }

InitClient ==
  /\ NoRequests
  /\ classified = NotClassified
  /\ configured = NotConfigured
  /\ backends = NotCompared
  /\ built = NotBuilt
  /\ keyed = NotKeyed
  /\ delayed = NotDelayed
  /\ setup = NotSetUp
  /\ client \in { [stage |-> "cache", entries |-> e, invalidated |-> {}] :
                    e \in SUBSET ClientKeys }
  /\ shared = NotShared

\* backend.invalidateQueries(urlPattern)
InvalidateQueries(urlPattern) ==
  /\ client.stage = "cache"
  /\ client' = [client EXCEPT
       !.invalidated = @ \cup invalidateQueries(urlPattern)]
  /\ UNCHANGED <<requestVars, classified, configured, backends, built, keyed,
                 delayed, setup, shared>>

\* backend.clearCache(): queryClient.clear()
clearCache ==
  /\ client.stage = "cache"
  /\ client' = [client EXCEPT !.entries = {}, !.invalidated = {}]
  /\ UNCHANGED <<requestVars, classified, configured, backends, built, keyed,
                 delayed, setup, shared>>

\* the owner of an invalidated entry fetches it again
Refetched(k) ==
  /\ client.stage = "cache"
  /\ k \in client.invalidated
  /\ client' = [client EXCEPT !.invalidated = @ \ {k}]
  /\ UNCHANGED <<requestVars, classified, configured, backends, built, keyed,
                 delayed, setup, shared>>

NextClient ==
  \/ \E urlPattern \in Patterns : InvalidateQueries(urlPattern)
  \/ clearCache
  \/ \E k \in ClientKeys : Refetched(k)

SpecClient == InitClient /\ [][NextClient]_vars

(***************************************************************************)
(* Two backends constructed with one query client and options of their     *)
(* own, each making one load.  The query client keeps one query per key;   *)
(* the key is made of the URL the caller passes, and the query function    *)
(* of the first caller builds the final request from that backend's        *)
(* options.  A response is written as the request it answers.              *)
(*   options    the options of the two backends                            *)
(*   queries    per key: the cached response and its freshness, the        *)
(*              request of the fetch in flight and the backends awaiting   *)
(*              it                                                         *)
(*   loads      per backend: its load and the response delivered to it     *)
(***************************************************************************)
SharedBackends == {1, 2}

SharedUrls == {"/locales/en", "/download/en"}

SharedKeys == { QueryKey(u, NoPayload) : u \in SharedUrls }

SharedOptionChoices ==
  { BuilderOptions(ch, Configured("undefined", EmptyRequestInit), "undefined",
                   FALSE, FALSE, qs) :
      ch \in { Configured("undefined", NoHeaders),
               Configured("static", Header("Authorization", "Bearer t")) },
      qs \in { NoParams, Params(<< <<"v", "1">> >>) } }

\* the request the query function of a backend with options o sends for url
FinalRequest(o, url) ==
  LET fetchOptions == buildFetchOptions(o, FALSE, NoPayload)
  IN  [url |-> addQueryString(<<url>>, o.queryStringParams),
       method |-> fetchOptions.method, headers |-> fetchOptions.headers,
       body |-> fetchOptions.body]

NoSharedQuery ==
  [cached |-> FALSE, data |-> NotFetched, fresh |-> FALSE, fetching |-> FALSE,
   sent |-> NotFetched, waiters |-> {}]

NoLoad == [state |-> "none", url |-> "", data |-> NotFetched]

InitShared ==
  /\ NoRequests
  /\ classified = NotClassified
  /\ configured = NotConfigured
  /\ backends = NotCompared
  /\ built = NotBuilt
  /\ keyed = NotKeyed
  /\ delayed = NotDelayed
  /\ setup = NotSetUp
  /\ client = NoClient
  /\ shared \in
       { [stage |-> "shared", options |-> <<o1, o2>>,
          queries |-> [k \in SharedKeys |-> NoSharedQuery],
          loads |-> [b \in SharedBackends |-> NoLoad]] :
           o1 \in SharedOptionChoices, o2 \in SharedOptionChoices }

\* backend b: request(options, url), up to its await of fetchQuery
SharedRequest(b, url) ==
  LET k == QueryKey(url, NoPayload)
      q == shared.queries[k]
  IN  /\ shared.stage = "shared"
      /\ shared.loads[b].state = "none"
      /\ shared' =
           IF q.cached /\ q.fresh /\ ~q.fetching
           THEN [shared EXCEPT
                   !.loads[b] = [state |-> "resolved", url |-> url,
                                 data |-> q.data]]
           ELSE IF q.fetching
           THEN [shared EXCEPT
                   !.loads[b] = [state |-> "pending", url |-> url,
                                 data |-> NotFetched],
                   !.queries[k].waiters = @ \cup {b}]
           ELSE [shared EXCEPT
                   !.loads[b] = [state |-> "pending", url |-> url,
                                 data |-> NotFetched],
                   !.queries[k].fetching = TRUE,
                   !.queries[k].sent = FinalRequest(shared.options[b], url),
                   !.queries[k].waiters = {b}]
      /\ UNCHANGED <<requestVars, classified, configured, backends, built,
                     keyed, delayed, setup, client>>

\* the fetch for key k settles: with the response to the request sent, or,
\* the retries used up, with an error
SharedFetchSettles(k, ok) ==
  LET q == shared.queries[k]
  IN  /\ shared.stage = "shared"
      /\ q.fetching
      /\ shared' = [shared EXCEPT
           !.queries[k] =
              [cached |-> ok \/ q.cached,
               data |-> IF ok THEN q.sent ELSE q.data,
               fresh |-> IF ok THEN TRUE ELSE q.fresh,
               fetching |-> FALSE, sent |-> NotFetched, waiters |-> {}],
           !.loads = [b \in SharedBackends |->
              IF b \in q.waiters
              THEN [@[b] EXCEPT
                      !.state = IF ok THEN "resolved" ELSE "rejected",
                      !.data = IF ok THEN q.sent ELSE NotFetched]
              ELSE @[b]]]
      /\ UNCHANGED <<requestVars, classified, configured, backends, built,
                     keyed, delayed, setup, client>>

\* the freshness window of the response cached for key k ends
SharedStaleTimeElapses(k) ==
  /\ shared.stage = "shared"
  /\ shared.queries[k].cached
  /\ shared.queries[k].fresh
  /\ shared' = [shared EXCEPT !.queries[k].fresh = FALSE]
  /\ UNCHANGED <<requestVars, classified, configured, backends, built,
                 keyed, delayed, setup, client>>

NextShared ==
  \/ \E b \in SharedBackends, url \in SharedUrls : SharedRequest(b, url)
  \/ \E k \in SharedKeys, ok \in BOOLEAN : SharedFetchSettles(k, ok)
  \/ \E k \in SharedKeys : SharedStaleTimeElapses(k)

SpecShared == InitShared /\ [][NextShared]_vars

(***************************************************************************)
(* Properties.                                                             *)
(***************************************************************************)
LoadKeys == { QueryKey(r[1], r[2]) : r \in { x \in Requests : ~PayloadTruthy(x[2]) } }

Awaiting(k) ==
  { c \in Calls : calls[c].st = "pending"
                  /\ QueryKey(calls[c].url, calls[c].payload) = k }

SuccessForm(args) == args.error.null /\ ~args.response.null

FailureForm(args) == ~args.error.null

\* C1: on the cache-backed path, however many request calls for the same
\* URL (no payload) are pending at once, they all await one fetch, and that
\* fetch has at most one transport call in flight: exactly one while the
\* query function runs (the call of attempt failureCount + 1), none while
\* the retryer sleeps.  A call that joins issues no transport call.
C1_OneTransportPerKey ==
  \A k \in LoadKeys :
    LET q == queries[k]
    IN  /\ transport[k] <= 1
        /\ Awaiting(k) = q.waiters
        /\ Awaiting(k) # {} =>
             \/ q.phase = "transport" /\ transport[k] = 1
                  /\ q.attempts = q.failureCount + 1
             \/ q.phase = "delay" /\ transport[k] = 0
                  /\ q.attempts = q.failureCount

C1_Witness ==
  \E k \in LoadKeys :
    /\ Cardinality(Awaiting(k)) >= 2
    /\ transport[k] = 1
    /\ queries[k].attempts = 1

\* C2: with a retry count of at least 1, a load whose first transport
\* attempt is answered HTTP 500 and whose retry is answered HTTP 200
\* eventually completes with callback(null, {status: 200, data}), and no
\* invocation of the callback carries the failure of the first attempt.
C2_RecoversAfter500 ==
  /\ [](\A c \in Calls :
          (maxRetries >= 1 /\ calls[c].st = "done") =>
             /\ cbLog[c][1] = CallbackArgs(CbError(TRUE, NoMessage),
                                           I18nextResponse(200, "key=passing"))
             /\ \A i \in DOMAIN cbLog[c] :
                  /\ cbLog[c][i].error.message # StatusMessage(calls[c].url, 500)
                  /\ cbLog[c][i].response # Sentinel)
  /\ \A c \in Calls :
       (maxRetries >= 1 /\ calls[c].st = "pending") ~> (calls[c].st = "done")

C2_Witness ==
  /\ maxRetries >= 1
  /\ calls[1].st = "done"
  /\ SuccessForm(cbLog[1][1])
  /\ cbLog[1][1].response.status = 200

\* C3: a response body that fails to parse is fatal: the fetch is not
\* retried (it settles on that transport call), the error with which
\* request() rejects has retry = false, and the callback gets a null
\* response, not the sentinel.
MalformedBody == HttpResponse(200, "OK", "<html>")

C3_ParseFailureIsFatal ==
  [][\A k \in Keys :
       TransportSettles(k, MalformedBody) =>
         /\ queries'[k].phase = "idle"
         /\ \A c \in queries[k].waiters :
              /\ calls'[c].settled.state = "rejected"
              /\ calls'[c].settled.error.retry = FALSE
              /\ CatchBlock(calls'[c].settled.error).response = NullResponse]_vars

\* C4: transformError applies its rules in priority order: a status in
\* [500,600) gives retry = true and a status in [400,500) gives retry =
\* false whatever the message; otherwise retry is true exactly when the
\* message contains a network-failure term (case-insensitive).  The
\* normalised error carries the URL and the status of the raw error (that
\* of its response if it has one, else its own; 0 counts as no status).
RawStatus(e) == IF Truthy(e.respStatus) THEN e.respStatus ELSE e.status

HasNetworkTerm(message) ==
  \E i \in DOMAIN message :
    \E term \in {"failed", "fetch", "network", "load", "timeout", "abort"} :
      WordIncludes(toLowerCase(message[i]), term)

C4_ClassificationOrder ==
  classified.stage \in {"once", "twice"} =>
    LET e == classified.raw
        n == classified.once
        s == RawStatus(e)
    IN  /\ (Truthy(s) /\ s >= 500 /\ s < 600) => n.retry = TRUE
        /\ (Truthy(s) /\ s >= 400 /\ s < 500) => n.retry = FALSE
        /\ ~(Truthy(s) /\ s >= 400 /\ s < 600) => n.retry = HasNetworkTerm(e.message)
        /\ n.url = classified.url
        /\ Truthy(s) => n.status = s

C4_Witness ==
  /\ classified.stage = "once"
  /\ classified.raw.status = 404
  /\ classified.raw.respStatus = Undefined
  /\ HasNetworkTerm(classified.raw.message)
  /\ classified.once.retry = FALSE
  /\ classified.once.status = 404

\* C5: a 4xx response is never retried, whatever the retry count: the
\* fetch settles on that transport call, no further transport call is
\* issued for it, every waiting request() rejects with that status, and the
\* callback receives the error with a null response.
ClientErrors ==
  { o \in Outcomes : o.kind = "response" /\ o.status >= 400 /\ o.status < 500 }

C5_ClientErrorNotRetried ==
  /\ [][\A k \in Keys : \A o \in ClientErrors :
          TransportSettles(k, o) =>
            /\ queries'[k].phase = "idle"
            /\ transport'[k] = 0
            /\ \A c \in queries[k].waiters :
                 /\ calls'[c].settled.state = "rejected"
                 /\ calls'[c].settled.error.status = o.status]_vars
  /\ [](\A c \in Calls :
          ( /\ calls[c].st = "done"
            /\ calls[c].settled.state = "rejected"
            /\ calls[c].settled.error.status >= 400
            /\ calls[c].settled.error.status < 500 ) =>
              /\ Len(cbLog[c]) = 1
              /\ FailureForm(cbLog[c][1])
              /\ cbLog[c][1].response = NullResponse)

C5_Witness ==
  \E c \in Calls :
    /\ maxRetries >= 1
    /\ calls[c].st = "done"
    /\ calls[c].settled.error.status = 404
    /\ cbLog[c] = <<CallbackArgs(CbError(FALSE, StatusMessage(calls[c].url, 404)),
                                 NullResponse)>>

\* C6: with tanstackQuery.retry a number n >= 0, one fetch issues at most
\* n + 1 transport calls; with retry unset, at most 4.
C6_AttemptsBounded ==
  \A k \in Keys :
    queries[k].attempts <=
      (IF options.retry.type = "number" THEN options.retry.val + 1 ELSE 4)

C6_Witness ==
  \E k \in Keys :
    /\ options.retry.type = "undefined"
    /\ queries[k].attempts = 4
    /\ queries[k].phase = "transport"

\* C7: when the request fails, the callback's first argument is a non-null
\* error value, and its second argument is the sentinel {status: 0} exactly
\* when the normalised error is retryable (retry flag set, or 5xx status),
\* and null otherwise.
C7_FailureCallback ==
  \A c \in Calls :
    (calls[c].st = "done" /\ calls[c].settled.state = "rejected") =>
      LET e == calls[c].settled.error
      IN  /\ Len(cbLog[c]) >= 1
          /\ ~cbLog[c][1].error.null
          /\ cbLog[c][1].error.message # NoMessage
          /\ cbLog[c][1].response =
               IF e.retry \/ (e.status >= 500 /\ e.status < 600)
               THEN Sentinel
               ELSE NullResponse

C7_Witness ==
  \E c1 \in Calls, c2 \in Calls :
    /\ calls[c1].st = "done" /\ calls[c1].settled.state = "rejected"
    /\ calls[c1].settled.error.status = Undefined
    /\ cbLog[c1][1].response = Sentinel
    /\ calls[c2].st = "done" /\ calls[c2].settled.state = "rejected"
    /\ cbLog[c2][1].response = NullResponse

\* C8: the callback receives (null, {status, data}) exactly when the
\* transport response is OK and its body parsed; status is the status of
\* that response and data its parsed body.  A response that is not OK never
\* produces the success form.
ParsedBody(body) == IF body = "" THEN "{}" ELSE JSONparse(body).value

OkAndParsed(o) ==
  /\ o.kind = "response"
  /\ o.status >= 200 /\ o.status <= 299
  /\ o.body = "" \/ ~JSONparse(o.body).throws

C8_SuccessIffOkAndParsed ==
  /\ [][\A k \in Keys : \A o \in Outcomes :
          TransportSettles(k, o) =>
            \A c \in queries[k].waiters :
              IF OkAndParsed(o)
              THEN calls'[c].settled =
                     Resolved(I18nextResponse(o.status, ParsedBody(o.body)))
              ELSE calls'[c].settled.state # "resolved"]_vars
  /\ [](\A k \in Keys :
          ~queries[k].data.null =>
             \E o \in Outcomes :
               /\ OkAndParsed(o)
               /\ queries[k].data = I18nextResponse(o.status, ParsedBody(o.body)))
  /\ [](\A c \in Calls :
          calls[c].st = "done" =>
            /\ SuccessForm(cbLog[c][1]) <=> calls[c].settled.state = "resolved"
            /\ calls[c].settled.state = "resolved" =>
                 cbLog[c][1] = CallbackArgs(CbError(TRUE, NoMessage),
                                            calls[c].settled.response)
            /\ \A i \in DOMAIN cbLog[c] : i > 1 => ~SuccessForm(cbLog[c][i]))

C8_Witness ==
  \E c \in Calls :
    /\ calls[c].st = "done"
    /\ cbLog[c][1] = CallbackArgs(CbError(TRUE, NoMessage), I18nextResponse(204, "{}"))

\* C9: every call ends in exactly one outcome: its callback is invoked
\* with the success form or with the failure form, never with both.
C9_OneOutcome ==
  \A c \in Calls :
    /\ Len(cbLog[c]) <= 1
    /\ ~(\E i \in DOMAIN cbLog[c], j \in DOMAIN cbLog[c] :
           SuccessForm(cbLog[c][i]) /\ FailureForm(cbLog[c][j]))

\* C10: all callers that share one fetch observe the same outcome: when
\* the fetch settles, the request() of every caller awaiting it settles
\* the same way, with the same response or with an error of the same
\* message, status and retry verdict.
C10_SharersAgree ==
  [][\A k \in Keys :
       (queries[k].waiters # {} /\ queries'[k].waiters = {}) =>
         \A c1 \in queries[k].waiters : \A c2 \in queries[k].waiters :
           /\ calls'[c1].st = "settled"
           /\ calls'[c1].settled.state # "none"
           /\ calls'[c1].settled = calls'[c2].settled]_vars

C10_Witness ==
  \E c1 \in Calls, c2 \in Calls :
    /\ c1 # c2
    /\ calls[c1].st = "settled" /\ calls[c2].st = "settled"
    /\ calls[c1].url = calls[c2].url /\ calls[c1].payload = calls[c2].payload
    /\ calls[c1].settled.state = "rejected"
    /\ calls[c1].settled = calls[c2].settled
    /\ maxRetries = 0

\* C11: the cache path is selected only when a query client is present and
\* tanstackQuery.enabled is explicitly true: each availability guard returns
\* true only then, so the two guards agree on every options object.
ExplicitlyEnabled(o) ==
  o.queryClient /\ o.tanstackQuery.present /\ o.tanstackQuery.enabled = "true"

C11_GuardsAgree ==
  /\ configured.stage # "none" /\ configured.available # NotEvaluated =>
       (configured.available = "true" => ExplicitlyEnabled(configured.user))
  /\ configured.stage # "none" /\ configured.enabled # NotEvaluated =>
       (configured.enabled = "true" => ExplicitlyEnabled(configured.user))
  /\ ( /\ configured.stage # "none"
       /\ configured.available # NotEvaluated
       /\ configured.enabled # NotEvaluated ) =>
         configured.available = configured.enabled

\* C13: every tanstackQuery field the user supplies reaches fetchQuery
\* unchanged, and every field the user omits reaches it with its documented
\* default (staleTime 300000, cacheTime 600000, retry 3, refetchOnWindowFocus
\* false, refetchOnReconnect true), also when only some fields are supplied.
C13_DefaultsPerField ==
  configured.stage = "requested" =>
    LET u == configured.user.tanstackQuery
        q == configured.queryOptions
    IN  /\ q.staleTime = IF u.staleTime = Undefined THEN 300000 ELSE u.staleTime
        /\ q.cacheTime = IF u.cacheTime = Undefined THEN 600000 ELSE u.cacheTime
        /\ q.retryBound = IF u.retry.type = "number" THEN u.retry.val ELSE 3
        /\ q.refetchOnWindowFocus =
             IF u.refetchOnWindowFocus = "undefined" THEN "false"
             ELSE u.refetchOnWindowFocus
        /\ q.refetchOnReconnect =
             IF u.refetchOnReconnect = "undefined" THEN "true"
             ELSE u.refetchOnReconnect

\* C12: a backend constructed with tanstackQuery.enabled = true and no
\* query client behaves as one constructed with tanstackQuery.enabled =
\* false: neither has a TanStackI18nextBackend, and for every behaviour of
\* the server a read yields the same callback arguments on both; against the
\* test server that is callback(null, {key: 'passing'}).
EnabledWithoutClient(o) ==
  ~o.queryClient /\ o.tanstackQuery.present /\ o.tanstackQuery.enabled = "true"

Disabled(o) == o.tanstackQuery.present /\ o.tanstackQuery.enabled = "false"

C12_FallbackSameAsDisabled ==
  ( /\ backends.stage = "constructed"
    /\ EnabledWithoutClient(backends.user[1])
    /\ Disabled(backends.user[2]) ) =>
      /\ ~backends.backend[1].tanstackBackend
      /\ ~backends.backend[2].tanstackBackend
      /\ (backends.read[1] # NotRead /\ backends.read[2] # NotRead) =>
           /\ backends.read[1] = backends.read[2]
           /\ backends.script[1] = HttpResponse(200, "OK", "{key:passing}") =>
                backends.read[1] = [error |-> CbError(TRUE, NoMessage),
                                    data |-> "key=passing", retry |-> FALSE]

C12_Witness ==
  /\ backends.stage = "constructed"
  /\ EnabledWithoutClient(backends.user[1])
  /\ Disabled(backends.user[2])
  /\ backends.user[2].queryClient
  /\ backends.script = <<HttpResponse(500, "Error", ""),
                          HttpResponse(200, "OK", "{key:passing}")>>
  /\ backends.read[1] # NotRead
  /\ backends.read[1] = backends.read[2]
  /\ backends.read[1].retry

\* the custom headers and the request options of the builder's options
CustomHeadersOf(o) ==
  IF o.customHeaders.kind = "undefined" THEN NoHeaders ELSE o.customHeaders.value

RequestOptionsOf(o) ==
  IF o.requestOptions.kind = "undefined" THEN EmptyRequestInit
  ELSE o.requestOptions.value

StringifyOf(o, payload) ==
  IF o.stringify = "custom" THEN <<"custom", payload>> ELSE <<"JSON", payload>>

\* C14 as stated: for every payload and every configuration, the request
\* has method POST and body stringify(payload) when a payload is present,
\* and method GET and no body when it is absent.
C14_MethodFollowsPayload ==
  built.stage = "fetched" =>
    IF built.payload # NoPayload /\ built.payload # ""
    THEN /\ built.fetched.method = "POST"
         /\ built.fetched.body = StringifyOf(built.options, built.payload)
    ELSE /\ built.fetched.method = "GET"
         /\ built.fetched.body = <<"undefined">>

\* C14 (amended): for every configuration whose requestOptions set neither
\* method nor body, the request has method POST and body stringify(payload)
\* when the payload is truthy, and method GET and no body when the payload
\* is falsy (absent); a method or body set in requestOptions is used as it is.
C14_MethodFollowsPayloadUnlessOverridden ==
  built.stage = "fetched" =>
    LET ro == RequestOptionsOf(built.options)
        present == built.payload # NoPayload /\ built.payload # ""
    IN  /\ built.fetched.method =
             IF ro.method # NotSet THEN ro.method
             ELSE IF present THEN "POST" ELSE "GET"
        /\ built.fetched.body =
             IF ro.body # NotSet THEN <<ro.body>>
             ELSE IF present THEN StringifyOf(built.options, built.payload)
             ELSE <<"undefined">>

C14_Witness ==
  /\ built.stage = "fetched"
  /\ built.payload = "{k:v}"
  /\ built.options.stringify = "custom"
  /\ built.options.requestOptions.kind = "static"
  /\ RequestOptionsOf(built.options).method = NotSet
  /\ RequestOptionsOf(built.options).body = NotSet
  /\ built.fetched.method = "POST"
  /\ built.fetched.body = <<"custom", "{k:v}">>

\* C15: in the headers of the request, every custom header other than
\* Content-Type appears unchanged unless requestOptions.headers defines the
\* same name, and every entry of requestOptions.headers appears with its
\* own value.
C15_HeadersMerged ==
  built.stage = "fetched" =>
    LET custom == CustomHeadersOf(built.options)
        ro == RequestOptionsOf(built.options)
        sent == built.fetched.headers
    IN  /\ \A n \in DOMAIN custom :
             (n # "Content-Type" /\ n \notin DOMAIN ro.headers) =>
               (n \in DOMAIN sent /\ sent[n] = custom[n])
        /\ \A n \in DOMAIN ro.headers :
             n \in DOMAIN sent /\ sent[n] = ro.headers[n]

\* C16: for a request with a payload, Content-Type is application/json
\* unless the custom headers define Content-Type, and then it is the custom
\* value.
C16_ContentType ==
  (built.stage = "fetched" /\ built.payload # NoPayload /\ built.payload # "") =>
    LET custom == CustomHeadersOf(built.options)
        sent == built.fetched.headers
    IN  /\ "Content-Type" \in DOMAIN sent
        /\ sent["Content-Type"] =
             IF "Content-Type" \in DOMAIN custom
             THEN custom["Content-Type"]
             ELSE "application/json"

\* C17: addQueryString returns the URL unchanged when there are no
\* parameters; otherwise it appends the pairs key=value, joined by "&",
\* each key and each value percent-encoded, after "&" when the URL already
\* contains "?" and after "?" when it does not; fetch is called with that
\* final URL.
ReservedStrings == {"a b", "x&y", "q?", "k=v"}

C17_QueryStringAppended ==
  /\ built.stage \in {"url", "options", "fetched"} =>
       LET url == built.url
           params == built.options.queryStringParams
           n == Len(params.entries)
           final == built.finalUrl
       IN  IF ~params.defined \/ n = 0
           THEN final = url
           ELSE /\ Len(final) = Len(url) + 4 * n
                /\ SubSeq(final, 1, Len(url)) = url
                /\ final[Len(url) + 1] =
                     (IF \E i \in DOMAIN url : url[i] = "?" THEN "&" ELSE "?")
                /\ \A j \in 1..n :
                     LET at == Len(url) + 4 * (j - 1) + 1
                     IN  /\ j > 1 => final[at] = "&"
                         /\ final[at + 1] = encodeURIComponent(params.entries[j][1])
                         /\ final[at + 1] \notin ReservedStrings
                         /\ final[at + 2] = "="
                         /\ final[at + 3] = encodeURIComponent(params.entries[j][2])
                         /\ final[at + 3] \notin ReservedStrings
  /\ built.stage = "fetched" => built.fetched.url = built.finalUrl

C17_Witness ==
  /\ built.stage = "fetched"
  /\ built.url = <<"/locales/en", "?", "cache=no">>
  /\ built.fetched.url =
       <<"/locales/en", "?", "cache=no", "&", "a%20b", "=", "x%26y",
         "&", "lng", "=", "en">>

\* C18: the key scheme is deterministic and injective on (operation kind,
\* URL, payload): two requests get equal keys exactly when they have the
\* same kind, URL and payload; in particular load keys of different URLs
\* differ, save keys of one URL with different payloads differ, and a load
\* key never equals a save key.  This holds of both key factories.
InjectiveOn(reqs, key) ==
  key # <<NoKey, NoKey>> =>
    /\ (key[1] = key[2]) <=> (reqs[1] = reqs[2])
    /\ reqs[1].kind # reqs[2].kind => key[1] # key[2]
    /\ \A i \in {1, 2} : key[i] # NoKey /\ key[i][1] = "i18next"

C18_KeysInjective ==
  keyed.stage # "none" =>
    /\ InjectiveOn(keyed.requests, keyed.key)
    /\ InjectiveOn(keyed.requests, keyed.tanstackKey)

C18_Witness ==
  /\ keyed.stage # "none"
  /\ keyed.requests[1] = [kind |-> "save", url |-> "/locales/add/en",
                          payload |-> "{k:v}"]
  /\ keyed.requests[2] = [kind |-> "save", url |-> "/locales/add/en",
                          payload |-> "{k:w}"]
  /\ keyed.key # <<NoKey, NoKey>>
  /\ keyed.tanstackKey # <<NoKey, NoKey>>
  /\ keyed.key[1] # keyed.key[2]
  /\ keyed.tanstackKey[1] # keyed.tanstackKey[2]

\* C19: request() stores a result under ('i18next', 'load', url) for a load
\* and ('i18next', 'save', url, payload) for a save: the data cached by a
\* successful request is found under exactly that key, and getCachedData
\* returns it.
DocumentedKey(url, payload) ==
  IF payload = NoPayload
  THEN <<"i18next", "load", url>>
  ELSE <<"i18next", "save", url, payload>>

C19_DocumentedKeys ==
  \A r \in Requests :
    LET k == QueryKey(r[1], r[2])
    IN  ~queries[k].data.null =>
          /\ k = DocumentedKey(r[1], r[2])
          /\ getQueryData(DocumentedKey(r[1], r[2])) = queries[k].data
          /\ getCachedData(r[1], r[2]) = queries[k].data

\* C20: getRetryDelay(i) = min(1000 * 2^i, 30000) for every attempt index
\* i >= 0: it is the same on every call, non-decreasing in i, never above
\* 30000, 1000 at attempt 0 and 30000 (not 32000) at attempt 5.
C20_RetryDelay ==
  delayed.stage # "none" =>
    LET i == delayed.attemptIndex[1]
        j == delayed.attemptIndex[2]
        di == delayed.delay[1]
        dj == delayed.delay[2]
    IN  /\ di # NoDelay =>
             /\ di = (IF 1000 * 2^i < 30000 THEN 1000 * 2^i ELSE 30000)
             /\ di <= 30000
             /\ i = 0 => di = 1000
             /\ i = 5 => di = 30000
        /\ (di # NoDelay /\ dj # NoDelay) =>
             /\ i = j => di = dj
             /\ i <= j => di <= dj

C20_Witness ==
  /\ delayed.stage # "none"
  /\ delayed.attemptIndex = <<4, 5>>
  /\ delayed.delay = <<16000, 30000>>

(***************************************************************************)
(* C21.  With tanstackQuery.retry configured as a function, a failed       *)
(* attempt of a fetch is retried exactly when that function returns true   *)
(* for the failure count and the error of the attempt.                     *)
(***************************************************************************)
C21_RetryFunctionDecides ==
  [][\A k \in Keys, o \in Outcomes :
       LET q == queries[k]
           r == createQueryFn(q.url, o)
       IN  (/\ options.retry.type = "function"
            /\ q.phase = "transport"
            /\ ~r.ok
            /\ TransportSettles(k, o))
           => (queries'[k].phase = "delay"
                 <=> userRetry(options.retry.val, q.failureCount, r.error))]_vars

(***************************************************************************)
(* C22.  With tanstackQuery.retry configured as false, no failed attempt   *)
(* is retried: every fetch issues exactly one transport call.              *)
(***************************************************************************)
C22_FalseNeverRetries ==
  options.retry = RetryBoolean(FALSE)
    => \A k \in Keys : queries[k].attempts <= 1

(***************************************************************************)
(* C24.  When the app-state module or the connectivity module cannot be    *)
(* loaded, setupReactNativeQuery still returns the cleanup function, and   *)
(* no error escapes, neither as an exception thrown by the call nor as a   *)
(* rejected promise; the handler of a module that is present is installed  *)
(* once its loading is done.                                               *)
(***************************************************************************)
HandlerDone(pc) == pc \in {"subscribed", "fallback", "skipped", "rejected"}

C24_MissingModulesAreSilent ==
  (setup.stage = "returned" /\ (~setup.reactNative \/ ~setup.netInfo))
    => /\ ~setup.thrown
       /\ setup.unhandled = {}
       /\ (setup.reactNative /\ HandlerDone(setup.appState) /\ ~setup.cleanedUp)
            => "change" \in setup.listeners
       /\ (setup.netInfo /\ HandlerDone(setup.network) /\ ~setup.cleanedUp)
            => "netinfo" \in setup.listeners

(***************************************************************************)
(* C25.  Once the function returned by setupReactNativeQuery has been      *)
(* called, no listener registered by that setup call is subscribed, also   *)
(* when the module loading of the setup was still pending at the call.     *)
(***************************************************************************)
C25_CleanupRemovesListeners ==
  (setup.stage = "returned" /\ setup.cleanedUp) => setup.listeners = {}

(***************************************************************************)
(* C28.  Normalising a normalised error again, for the same URL, keeps     *)
(* the verdict: the retry flag and the status of the second result are     *)
(* those of the first.                                                     *)
(***************************************************************************)
C28_RenormalisingKeepsVerdict ==
  classified.stage = "twice"
    => /\ classified.twice.retry = classified.once.retry
       /\ classified.twice.status = classified.once.status

(***************************************************************************)
(* C27.  requestWithCallback invokes its callback at most once per call,   *)
(* also when the callback throws while it handles the success result.      *)
(***************************************************************************)
C27_CallbackAtMostOnce ==
  \A c \in Calls : calls[c].st = "done" => Len(cbLog[c]) = 1

(***************************************************************************)
(* C23.  After a load of a URL has succeeded, a later load of the same URL *)
(* within the freshness window of the cached data issues no transport call *)
(* and is answered with the {status, data} the earlier load delivered.     *)
(***************************************************************************)
Loads == { r \in Requests : ~PayloadTruthy(r[2]) }

CachedFresh(k) == ~queries[k].data.null /\ queries[k].fresh

Saves == { r \in Requests : PayloadTruthy(r[2]) }

C30_SaveSendsPost ==
  [][\A c \in Calls, r \in Saves :
       LET k == QueryKey(r[1], r[2])
       IN  (~Fetching(queries[k]) /\ requestWithCallback(c, r[1], r[2]))
           => /\ transport'[k] = transport[k] + 1
              /\ ~calls'[c].cached]_vars

(***************************************************************************)
(* C26.  invalidateQueries invalidates only entries whose key starts with  *)
(* the i18next namespace and leaves every other entry of the shared query  *)
(* client as it is: with a pattern exactly the i18next entries whose URL   *)
(* contains the pattern, without one exactly all i18next entries.          *)
(***************************************************************************)
I18nextEntries == { k \in client.entries : k[1] = "i18next" }

ToInvalidate(urlPattern) ==
  IF urlPattern = NoPattern
  THEN I18nextEntries
  ELSE { k \in I18nextEntries : StringIncludes(k[3], urlPattern) }

C26_InvalidatesOnlyI18next ==
  [][\A urlPattern \in Patterns :
       InvalidateQueries(urlPattern)
         => /\ client'.entries = client.entries
            /\ client'.invalidated =
                 client.invalidated \cup ToInvalidate(urlPattern)]_vars

(***************************************************************************)
(* C29.  The response delivered to a backend was fetched with the final    *)
(* request of that backend: when two backends sharing one query client     *)
(* load the same URL with different query string parameters or custom      *)
(* headers, neither receives the response to the request of the other.     *)
(***************************************************************************)
C29_OwnFinalRequest ==
  \A b \in SharedBackends :
    (shared.stage = "shared" /\ shared.loads[b].state = "resolved")
      => shared.loads[b].data =
           FinalRequest(shared.options[b], shared.loads[b].url)

====
